---- MODULE Spec2Model ----
(***************************************************************************)
(* UTXO reconciliation of the marina wallet.                               *)
(*                                                                         *)
(* Two stores are modelled, as in the sources:                             *)
(*   - utxosMap, the string-keyed UTXO object of the redux state that      *)
(*     makeUtxosUpdaterThunk reads and updates through addUtxo/deleteUtxo; *)
(*   - wallets[0].utxoMap, the Map<Outpoint, UtxoInterface> that setUtxos  *)
(*     replaces and getAllBalances reads.                                  *)
(* The explorer and the unblinding primitive are the environment: the      *)
(* explorer returns any list of outputs (duplicates and stale outputs      *)
(* included), and each returned output either opens with the blinding key  *)
(* of the address it was fetched for or does not.                          *)
(***************************************************************************)
EXTENDS Integers, Sequences, FiniteSets, TLC

VARIABLES
  isAuthenticated,  \* state.app.isAuthenticated
  utxosMap,         \* redux UTXO object: outpoint string -> utxo
  assets,           \* state.assets: asset hashes whose infos are known
  upd,              \* locals and position of the running makeUtxosUpdaterThunk
  obs,              \* history of the current / last updater run
  spent,            \* history: keys removed as spent before the run in flight began
  replay,           \* history: the fetch log of a run and the replay position
  utxoMap,          \* wallets[0].utxoMap: the entries of the Map, in insertion order
  storage,          \* the utxoMap of the first wallet in browser storage
  su,               \* locals and position of the running setUtxos
  sobs,             \* history of the current / last setUtxos call
  bal,              \* what getAllBalances reported on the current utxoMap
  focus,            \* the part of the application a behaviour exercises
  wallets,          \* browser.storage.local 'wallets': the persisted wallet list
  calls,            \* the repository calls made since the storage was last at rest
  base,             \* history: the persisted wallet list when it was last at rest
  runs,             \* handler runs in flight, per kind of refresh request
  req,              \* history: the last request of each kind and what became of it
  taxi,             \* the taxi assets per network and the position of the taxi saga
  alarmOn,          \* the UPDATE_ALARM listener is registered
  gut,              \* a call of getUtxosFromTx: its arguments and what it returned
  wstate,           \* getState().wallets: the wallets of the in-memory state
  th,               \* the wallet thunks started since the storage was last at rest
  txsHistory,       \* the transactions of the account on the network, by txid
  tu,               \* the runs of makeTxsUpdaterThunk
  mu,               \* a call of makeUnconfirmedUtxos: its arguments and its outcome
  deepRestorerState,\* state.wallet.deepRestorer: isLoading and error
  mainAccount,      \* state.wallet.mainAccount, as far as setWalletData replaces it
  dr                \* the calls of deepRestorer

updaterVars == <<isAuthenticated, utxosMap, assets, upd, obs, spent>>
walletVars == <<utxoMap, storage, su, sobs, bal>>
repoVars == <<wallets, calls, base>>
sagaVars == <<runs, req, taxi, alarmOn>>
thunkVars == <<wstate, th>>
txsVars == <<txsHistory, tu>>
restorerVars == <<deepRestorerState, mainAccount, dr>>
otherVars == <<repoVars, sagaVars, gut, thunkVars, txsVars, mu, restorerVars>>
coreVars == <<updaterVars, replay, walletVars>>
exceptRepo == <<coreVars, focus, sagaVars, gut, thunkVars, txsVars, mu, restorerVars>>
exceptSaga == <<coreVars, focus, repoVars, gut, thunkVars, txsVars, mu, restorerVars>>
exceptGut == <<coreVars, focus, repoVars, sagaVars, thunkVars, txsVars, mu, restorerVars>>
exceptThunk == <<coreVars, focus, sagaVars, gut, txsVars, mu, restorerVars>>
exceptTxs == <<utxosMap, assets, upd, obs, spent, replay, walletVars, focus, repoVars,
               sagaVars, gut, thunkVars, mu, restorerVars>>
exceptRestorer == <<coreVars, focus, repoVars, sagaVars, gut, thunkVars, txsVars, mu>>
exceptMu == <<coreVars, focus, repoVars, sagaVars, gut, thunkVars, txsVars, restorerVars>>
vars == <<coreVars, focus, otherVars>>

----------------------------------------------------------------------------
(* Bounds *)

NumAddr == 2     \* watched addresses of the account
MaxFetch == 2    \* outputs the explorer returns during one run, all addresses
MaxIns == 1      \* inputs of a locally signed transaction
MaxCalls == 2    \* repository calls in flight together
MaxOuts == 2     \* outputs of a locally signed transaction
MaxAddrs == 2    \* addresses of the accounts passed to getUtxosFromTx
MaxCoins == 2    \* coins passed to getUtxosFromTx
MaxRuns == 2     \* runs of makeTxsUpdaterThunk in flight
MaxCands == 2    \* change candidates passed to makeUnconfirmedUtxos
MaxRestores == 2 \* calls of deepRestorer in flight

----------------------------------------------------------------------------
(* The chain: outpoints and what they hold once unblinded *)

Outpoints ==
  { [txid |-> "0ab1", vout |-> 0],
    [txid |-> "b10a", vout |-> 1] }

NoAsset == "undefined"
NoValue == -1

ChainAsset(o) == "lbtc"
ChainValue(o) == o.vout + 1

\* the watched address an outpoint pays to
AddressOf(o) == IF o.txid = "0ab1" THEN 1 ELSE 2

\* what the explorer returns for a confidential output: its outpoint; ok says
\* whether the blinding key of the address it was fetched for opens it
RawOutputs == [txid : {o.txid : o \in Outpoints}, vout : {o.vout : o \in Outpoints},
               ok : BOOLEAN]
RawUtxos == {r \in RawOutputs : [txid |-> r.txid, vout |-> r.vout] \in Outpoints}

----------------------------------------------------------------------------
(* Pure helpers *)

toStringOutpoint(outpoint) == outpoint.txid \o ":" \o ToString(outpoint.vout)

toOutpoint(utxo) == [txid |-> utxo.txid, vout |-> utxo.vout]

Keys == {toStringOutpoint(o) : o \in Outpoints}

\* a fetched output left as the explorer returned it
BlindedUtxo(raw) ==
  [txid |-> raw.txid, vout |-> raw.vout, asset |-> NoAsset, value |-> NoValue]

UnblindedUtxo(raw) ==
  [txid |-> raw.txid, vout |-> raw.vout,
   asset |-> ChainAsset(toOutpoint(raw)), value |-> ChainValue(toOutpoint(raw))]

\* never throws: the base utxo comes back when the key does not open it
tryToUnblindUtxo(raw) == IF raw.ok THEN UnblindedUtxo(raw) ELSE BlindedUtxo(raw)

\* JavaScript's !x for an asset (string | undefined) and a value (number | undefined)
NotAsset(a) == a = NoAsset \/ a = ""
NotValue(v) == v = NoValue \/ v = 0

isBlindedUtxo(utxo) == NotAsset(utxo.asset) \/ NotValue(utxo.value)

\* reducers of the UTXO object
addUtxo(map, utxo) ==
  [k \in DOMAIN map \cup {toStringOutpoint(utxo)} |->
     IF k = toStringOutpoint(utxo) THEN utxo ELSE map[k]]

deleteUtxo(map, txid, vout) ==
  [k \in DOMAIN map \ {toStringOutpoint([txid |-> txid, vout |-> vout])} |-> map[k]]

RECURSIVE deleteUtxos(_, _)
deleteUtxos(map, outpoints) ==
  IF outpoints = {} THEN map
  ELSE LET o == CHOOSE x \in outpoints : TRUE
       IN deleteUtxos(deleteUtxo(map, o.txid, o.vout), outpoints \ {o})

\* Buffer.reverse() and Buffer.toString('hex')
\* the hash read as it stands, without the reversal
asStored(bytes) == bytes

RECURSIVE Reverse(_)
Reverse(bytes) ==
  IF bytes = <<>> THEN <<>> ELSE Reverse(Tail(bytes)) \o <<Head(bytes)>>

HexDigits == <<"0", "1", "2", "3", "4", "5", "6", "7",
               "8", "9", "a", "b", "c", "d", "e", "f">>

RECURSIVE ToHex(_)
ToHex(bytes) ==
  IF bytes = <<>> THEN ""
  ELSE HexDigits[(Head(bytes) \div 16) + 1] \o HexDigits[(Head(bytes) % 16) + 1]
         \o ToHex(Tail(bytes))

\* the input hashes a transaction can carry (internal byte order)
TxHashes == { <<177, 10>>, <<10, 177>> }
TxInputs == [hash : TxHashes, index : {o.vout : o \in Outpoints}]

RECURSIVE SeqsUpTo(_, _)
SeqsUpTo(S, n) ==
  IF n = 0 THEN {<<>>}
  ELSE LET shorter == SeqsUpTo(S, n - 1)
       IN shorter \cup {Append(q, x) : q \in {r \in shorter : Len(r) = n - 1}, x \in S}

RECURSIVE SetToSeq(_)
SetToSeq(S) ==
  IF S = {} THEN <<>>
  ELSE LET x == CHOOSE y \in S : TRUE IN <<x>> \o SetToSeq(S \ {x})

\* first coin matching the input, as the inner for/break of getUtxosFromTx
RECURSIVE FirstCoin(_, _, _)
FirstCoin(coins, txid, index) ==
  IF coins = <<>> THEN <<>>
  ELSE IF Head(coins).txid = txid /\ Head(coins).vout = index THEN <<Head(coins)>>
  ELSE FirstCoin(Tail(coins), txid, index)

RECURSIVE selectedUtxos(_, _)
selectedUtxos(coins, ins) ==
  IF ins = <<>> THEN <<>>
  ELSE FirstCoin(coins, ToHex(Reverse(Head(ins).hash)), Head(ins).index)
         \o selectedUtxos(coins, Tail(ins))

----------------------------------------------------------------------------
(* makeUtxosUpdaterThunk *)

\* yielded: the outputs the stream has yielded in this run, each with whether it
\* was submitted to unblinding
IdleUpd ==
  [pc |-> "idle", utxosMap |-> <<>>, currentOutpoints |-> {}, skippedOutpoints |-> {},
   addr |-> 1, inBatch |-> FALSE, numberOfUtxos |-> 0, errors |-> 0, yielded |-> <<>>]

\* start: keys of the set at the start of the run; fetched: keys the stream
\* yielded; failed / opened: keys whose unblinding was attempted and failed /
\* succeeded; added, deleted: keys of the addUtxo and deleteUtxo dispatches
\* errors: the addresses whose fetch failed
NoObs ==
  [status |-> "none", start |-> {}, fetched |-> {}, failed |-> {}, opened |-> {},
   added |-> {}, deleted |-> {}, errors |-> {}]

NoReplay == [log |-> <<>>, pos |-> 0]

\* the environment's choice at one step of the fetch stream
Event(kind, raw) == [kind |-> kind, raw |-> raw]
NoRaw == [txid |-> "", vout |-> 0, ok |-> FALSE]

\* rec: the fetch log is kept; a replaying run follows the log of the run before
Follows(rec, ev) ==
  \/ ~rec /\ UNCHANGED replay
  \/ rec /\ replay.pos = 0 /\ replay' = [replay EXCEPT !.log = Append(@, ev)]
  \/ rec /\ replay.pos > 0 /\ replay.pos <= Len(replay.log)
         /\ replay.log[replay.pos] = ev
         /\ replay' = [replay EXCEPT !.pos = @ + 1]

\* lines 103-110: skip unblinding if the utxo exists in the state read at the start
skipNever(map, utxo) == FALSE
skipPredicate(map, utxo) == toStringOutpoint(utxo) \in DOMAIN map

\* lines 140-144: the current outpoints that were not skipped count as spent
spentAll(currentOutpoints, skippedOutpoints) == currentOutpoints
spentOutpoints(currentOutpoints, skippedOutpoints) ==
  {o \in currentOutpoints : toStringOutpoint(o) \notin skippedOutpoints}

\* lines 145-147: the catch logs the error; nothing is deleted
caughtAsDone(currentOutpoints, skippedOutpoints) ==
  spentOutpoints(currentOutpoints, skippedOutpoints)
caught(currentOutpoints, skippedOutpoints) == {}

\* lines 85 and 161: if (!app.isAuthenticated) return;
neverReturns(authenticated) == FALSE
returnsAtGuard(authenticated) == ~authenticated

\* lines 82-111: the guard, the snapshot of the state and the skip predicate's closure
UtxosUpdaterStart(rec, again) ==
  /\ upd.pc = "idle"
  /\ IF returnsAtGuard(isAuthenticated)
       THEN /\ obs' = [NoObs EXCEPT !.status = "unauthenticated"]
            /\ UNCHANGED <<upd, replay>>
       ELSE /\ upd' = [IdleUpd EXCEPT
                         !.pc = "running",
                         !.utxosMap = utxosMap,
                         !.currentOutpoints =
                            {toOutpoint(utxosMap[k]) : k \in DOMAIN utxosMap}]
            /\ obs' = [NoObs EXCEPT !.status = "running", !.start = DOMAIN utxosMap]
            /\ IF ~rec THEN UNCHANGED replay
               ELSE IF again
                 THEN /\ obs.status = "complete"
                      /\ replay' = [replay EXCEPT !.pos = 1]
                 ELSE replay' = NoReplay
  /\ UNCHANGED <<isAuthenticated, utxosMap, assets, spent, walletVars, focus, otherVars>>

\* one utxos.next() that yields, and the loop body of lines 114-129;
\* assetInfosOk: the explorer answers the asset request of fetchAssetInfos;
\* prevoutThrows: the utxo has no prevout and utxoWithPrevout rejects
UtxosUpdaterYield(rec, raw, assetInfosOk, prevoutThrows) ==
  /\ upd.pc = "running"
  /\ upd.addr <= NumAddr
  /\ upd.numberOfUtxos < MaxFetch
  /\ Follows(rec, Event("utxo", raw))
  /\ LET outpoint == toStringOutpoint(raw)
         skip == skipPredicate(upd.utxosMap, raw)
         utxo == IF skip THEN BlindedUtxo(raw) ELSE tryToUnblindUtxo(raw)
         seen == [obs EXCEPT
                    !.fetched = @ \cup {outpoint},
                    !.failed = IF ~skip /\ ~raw.ok THEN @ \cup {outpoint} ELSE @,
                    !.opened = IF ~skip /\ raw.ok THEN @ \cup {outpoint} ELSE @]
         gen == [upd EXCEPT
                    !.skippedOutpoints = IF skip THEN @ \cup {outpoint} ELSE @,
                    !.inBatch = TRUE,
                    !.numberOfUtxos = @ + 1,
                    !.yielded = Append(@, [outpoint |-> outpoint, unblind |-> ~skip])]
     IN IF isBlindedUtxo(utxo)
          THEN /\ assetInfosOk /\ ~prevoutThrows    \* neither request is made
               /\ upd' = gen
               /\ obs' = seen
               /\ UNCHANGED <<utxosMap, assets>>
          ELSE /\ utxo.asset \in assets => assetInfosOk
               /\ assets' = IF utxo.asset \notin assets /\ assetInfosOk
                              THEN assets \cup {utxo.asset} ELSE assets
               /\ IF prevoutThrows
                    THEN /\ upd' = IdleUpd
                         /\ LET gone == caught(upd.currentOutpoints, upd.skippedOutpoints)
                            IN /\ obs' = [seen EXCEPT
                                            !.status = "aborted",
                                            !.deleted = {toStringOutpoint(o) : o \in gone}]
                               /\ utxosMap' = deleteUtxos(utxosMap, gone)
                    ELSE /\ upd' = gen
                         /\ obs' = [seen EXCEPT !.added = @ \cup {outpoint}]
                         /\ utxosMap' = addUtxo(utxosMap, utxo)
  /\ UNCHANGED <<isAuthenticated, spent, walletVars, focus, otherVars>>

\* the fetch of the current address returned and its batch is exhausted
UtxosUpdaterEndBatch(rec) ==
  /\ upd.pc = "running"
  /\ upd.addr <= NumAddr
  /\ Follows(rec, Event("end", NoRaw))
  /\ upd' = [upd EXCEPT !.addr = @ + 1, !.inBatch = FALSE]
  /\ UNCHANGED <<isAuthenticated, utxosMap, assets, obs, spent, walletVars, focus, otherVars>>

\* the fetch of the current address failed: recorded in the summary, not thrown
UtxosUpdaterFetchError(rec) ==
  /\ upd.pc = "running"
  /\ upd.addr <= NumAddr
  /\ ~upd.inBatch
  /\ Follows(rec, Event("error", NoRaw))
  /\ upd' = [upd EXCEPT !.addr = @ + 1, !.errors = @ + 1]
  /\ obs' = [obs EXCEPT !.errors = @ \cup {upd.addr}]
  /\ UNCHANGED <<isAuthenticated, utxosMap, assets, spent, walletVars, focus, otherVars>>

\* lines 131-144: the stream is done; delete what was not skipped
UtxosUpdaterFinish ==
  /\ upd.pc = "running"
  /\ upd.addr > NumAddr
  /\ LET gone == spentOutpoints(upd.currentOutpoints, upd.skippedOutpoints)
     IN /\ utxosMap' = deleteUtxos(utxosMap, gone)
        /\ obs' = [obs EXCEPT !.status = "complete",
                              !.deleted = {toStringOutpoint(o) : o \in gone}]
        /\ spent' = spent \cup {toStringOutpoint(o) : o \in gone}
  /\ upd' = IdleUpd
  /\ UNCHANGED <<isAuthenticated, assets, replay, walletVars, focus, otherVars>>

----------------------------------------------------------------------------
(* The rest of the application acting on the same state *)

Login ==
  /\ ~isAuthenticated
  /\ isAuthenticated' = TRUE
  /\ UNCHANGED <<utxosMap, assets, upd, obs, spent, replay, walletVars, focus, otherVars>>

Logout ==
  /\ isAuthenticated
  /\ isAuthenticated' = FALSE
  /\ UNCHANGED <<utxosMap, assets, upd, obs, spent, replay, walletVars, focus, otherVars>>

\* a transaction was signed locally: the coins it spends leave the set at once
SpendLocal(ins) ==
  /\ isAuthenticated
  /\ LET coins == SetToSeq({utxosMap[k] : k \in DOMAIN utxosMap})
         selected == selectedUtxos(coins, ins)
         gone == {toOutpoint(selected[i]) : i \in 1..Len(selected)}
     IN /\ gone # {}
        /\ utxosMap' = deleteUtxos(utxosMap, gone)
        /\ spent' = IF upd.pc = "idle"
                      THEN spent \cup {toStringOutpoint(o) : o \in gone}
                      ELSE spent
  /\ UNCHANGED <<isAuthenticated, assets, upd, obs, replay, walletVars, focus, otherVars>>

----------------------------------------------------------------------------
(* setUtxos, compareUtxos and getAllBalances on wallets[0].utxoMap *)

\* utxoMapStore.size, then every key of the store matched by some fetched utxo
compareUtxos(utxoMapStore, fetchedUtxos) ==
  IF Len(utxoMapStore) # Len(fetchedUtxos) THEN FALSE
  ELSE \A i \in 1..Len(utxoMapStore) :
         \E j \in 1..Len(fetchedUtxos) :
           /\ fetchedUtxos[j].txid = toOutpoint(utxoMapStore[i]).txid
           /\ fetchedUtxos[j].vout = toOutpoint(utxoMapStore[i]).vout

\* new Map(), then utxoMap.set(toOutpoint(utxo), utxo) for every unblinded-or-not
\* utxo, address by address: toOutpoint makes a new object each time and a Map
\* compares object keys by identity, so every set() adds an entry
newUtxoMap(allUtxos) == [i \in 1..Len(allUtxos) |-> tryToUnblindUtxo(allUtxos[i])]

NoBal == [called |-> FALSE, balances |-> <<>>, errors |-> <<>>, dispatched |-> <<>>]

\* allUtxos: the answers of the addresses so far, in address order; batch: the
\* address each of them was fetched for; unblinding: the positions in allUtxos
\* whose tryToUnblindUtxo is in flight
IdleSu == [pc |-> "idle", allUtxos |-> <<>>, batch |-> <<>>, addr |-> 1,
           inBatch |-> FALSE, utxoMap |-> <<>>, unblinding |-> {}]

\* lines 378-383: map() calls every async fetch before Promise.all awaits any,
\* so the fetches of the addresses not yet answered are all in flight
fetchesInFlight(s) == IF s.pc = "fetching" THEN NumAddr - s.addr + 1 ELSE 0

NoSobs ==
  [status |-> "none", persisted |-> FALSE, dispatched |-> <<>>, again |-> FALSE]

setUtxosStart(again) ==
  /\ su.pc = "idle"
  /\ su' = [IdleSu EXCEPT !.pc = "fetching"]
  /\ sobs' = [NoSobs EXCEPT !.status = "running", !.again = again]
  /\ IF again
       THEN /\ sobs.status \in {"stored", "unchanged"}
            /\ replay' = [replay EXCEPT !.pos = 1]
       ELSE replay' = NoReplay
  /\ bal' = NoBal
  /\ UNCHANGED <<updaterVars, utxoMap, storage, focus, otherVars>>

\* lines 378-386: one more utxo in the answer for the current address
setUtxosFetched(raw) ==
  /\ su.pc = "fetching"
  /\ Len(su.allUtxos) < MaxFetch
  /\ Follows(TRUE, Event("utxo", raw))
  /\ su' = [su EXCEPT !.allUtxos = Append(@, raw), !.batch = Append(@, su.addr),
                       !.inBatch = TRUE]
  /\ UNCHANGED <<updaterVars, utxoMap, storage, sobs, bal, focus, otherVars>>

\* the fetch of the current address is complete
setUtxosEndAddress ==
  /\ su.pc = "fetching"
  /\ Follows(TRUE, Event("end", NoRaw))
  /\ su' = [su EXCEPT !.addr = @ + 1, !.inBatch = FALSE,
                       !.pc = IF su.addr = NumAddr THEN "compare" ELSE @]
  /\ UNCHANGED <<updaterVars, utxoMap, storage, sobs, bal, focus, otherVars>>

\* one fetch rejects: Promise.all rejects and the catch of lines 419-422 runs
setUtxosFetchError ==
  /\ su.pc = "fetching"
  /\ ~su.inBatch
  /\ Follows(TRUE, Event("error", NoRaw))
  /\ su' = IdleSu
  /\ sobs' = [sobs EXCEPT !.status = "failed",
                          !.dispatched = Append(@, "WALLET_SET_UTXOS_FAILURE")]
  /\ UNCHANGED <<updaterVars, utxoMap, storage, bal, focus, otherVars>>

\* lines 388-410: flatten, getState, compare, then both map() calls run through:
\* tryToUnblindUtxo is called for every utxo of every address before the
\* Promise.all of any address is awaited
setUtxosCompare ==
  /\ su.pc = "compare"
  /\ IF compareUtxos(utxoMap, su.allUtxos)
       THEN /\ su' = IdleSu
            /\ sobs' = [sobs EXCEPT !.status = "unchanged"]
       ELSE /\ su' = [su EXCEPT !.pc = IF su.allUtxos = <<>> THEN "persist" ELSE "unblind",
                                 !.unblinding = 1..Len(su.allUtxos),
                                 !.utxoMap = newUtxoMap(su.allUtxos)]
            /\ UNCHANGED sobs
  /\ UNCHANGED <<updaterVars, replay, utxoMap, storage, bal, focus, otherVars>>

\* one tryToUnblindUtxo resolves; after the last one lines 411-414 build the Map
setUtxosUnblinded(i) ==
  /\ su.pc = "unblind"
  /\ i \in su.unblinding
  /\ su' = [su EXCEPT !.unblinding = @ \ {i},
                       !.pc = IF su.unblinding = {i} THEN "persist" ELSE @]
  /\ UNCHANGED <<updaterVars, replay, utxoMap, storage, sobs, bal, focus, otherVars>>

\* lines 415-422: the repository write, then the dispatch and the callback
setUtxosPersist(ok) ==
  /\ su.pc = "persist"
  /\ su' = IdleSu
  /\ IF ok
       THEN /\ storage' = su.utxoMap
            /\ utxoMap' = su.utxoMap
            /\ sobs' = [sobs EXCEPT !.status = "stored", !.persisted = TRUE,
                                    !.dispatched = Append(@, "WALLET_SET_UTXOS_SUCCESS")]
       ELSE /\ sobs' = [sobs EXCEPT !.status = "failed",
                                    !.dispatched = Append(@, "WALLET_SET_UTXOS_FAILURE")]
            /\ UNCHANGED <<storage, utxoMap>>
  /\ UNCHANGED <<updaterVars, replay, bal, focus, otherVars>>

AssetText(a) == a
ValueText(v) == IF v = NoValue THEN "undefined" ELSE ToString(v)

MissingUtxoInfo(curr) ==
  "Missing utxo info. Asset: " \o AssetText(curr.asset)
     \o ", Value: " \o ValueText(curr.value)

\* the reducer of lines 335-343, over the values of the Map in insertion order
RECURSIVE reduceBalances(_, _)
reduceBalances(acc, utxos) ==
  IF utxos = <<>> THEN acc
  ELSE LET curr == Head(utxos)
       IN IF NotAsset(curr.asset) \/ NotValue(curr.value)
            THEN reduceBalances(acc, Tail(utxos))
            ELSE reduceBalances(
                   [a \in DOMAIN acc \cup {curr.asset} |->
                      IF a = curr.asset THEN curr.value ELSE acc[a]],
                   Tail(utxos))

\* the onError calls the reducer makes on its way, in order
RECURSIVE balanceErrors(_)
balanceErrors(utxos) ==
  IF utxos = <<>> THEN <<>>
  ELSE LET curr == Head(utxos)
       IN (IF NotAsset(curr.asset) \/ NotValue(curr.value)
             THEN <<MissingUtxoInfo(curr)>> ELSE <<>>)
            \o balanceErrors(Tail(utxos))

\* synchronous; the Map changes only in the last step of setUtxos, so a call made
\* while setUtxos is suspended reads a Map that a call made in between reads too
getAllBalances ==
  /\ su.pc = "idle"
  /\ bal' = [called |-> TRUE,
             balances |-> reduceBalances(<<>>, utxoMap),
             errors |-> balanceErrors(utxoMap),
             dispatched |->
               [i \in 1..Len(balanceErrors(utxoMap)) |-> "WALLET_GET_ALL_BALANCES_FAILURE"]
                 \o <<"WALLET_GET_ALL_BALANCES_SUCCESS">>]
  /\ UNCHANGED <<updaterVars, replay, utxoMap, storage, su, sobs, focus, otherVars>>

----------------------------------------------------------------------------
(* BrowserStorageWalletRepo: every method is a storage get, then a storage set *)

WalletIds == {"w1", "w2"}
AddressValues == {"a1", "a2"}

\* WalletMap.toDTO(Wallet.createWallet(wallet)) for the wallet createWallet passes
NewWallet(id) == [walletId |-> id, confidentialAddresses |-> <<>>, utxoMap |-> <<>>]

\* the Maps setUtxos is called with
UtxoMaps == {<<UnblindedUtxo([txid |-> "0ab1", vout |-> 0, ok |-> TRUE])>>}

NoArg == [walletId |-> "", address |-> "", utxoMap |-> <<>>]

\* the calls a client can make; getOrCreateWallet with a wallet is "createWallet",
\* without one "getWallet"
RepoCalls ==
  {[op |-> "getWallet", arg |-> NoArg]}
    \cup {[op |-> "createWallet", arg |-> [NoArg EXCEPT !.walletId = id]] : id \in WalletIds}
    \cup {[op |-> "addDerivedAddress", arg |-> [NoArg EXCEPT !.address = a]] :
            a \in AddressValues}
    \cup {[op |-> "setUtxos", arg |-> [NoArg EXCEPT !.utxoMap = m]] : m \in UtxoMaps}

Includes(q, x) == \E i \in 1..Len(q) : q[i] = x

\* lines 15-40, from the resolved get to the set or the return:
\* write says a storage set follows, with `pending` as the list to store
getOrCreateWallet(store, op, arg) ==
  IF op = "createWallet"
    THEN [threw |-> FALSE, write |-> TRUE,
          pending |->
            IF \E i \in 1..Len(store) : store[i].walletId = arg.walletId
              THEN store ELSE Append(store, NewWallet(arg.walletId))]
    ELSE [threw |-> Len(store) <= 0, write |-> FALSE, pending |-> store]

\* lines 42-52: the first wallet, with the address pushed unless it is there
addDerivedAddress(store, address) ==
  LET got == getOrCreateWallet(store, "getWallet", NoArg)
  IN IF got.threw THEN got
     ELSE IF Includes(store[1].confidentialAddresses, address) THEN got
     ELSE [threw |-> FALSE, write |-> TRUE,
           pending |-> <<[store[1] EXCEPT !.confidentialAddresses = Append(@, address)]>>]

\* lines 55-61: the first wallet, with its utxoMap replaced
repoSetUtxos(store, map) ==
  LET got == getOrCreateWallet(store, "getWallet", NoArg)
  IN IF got.threw THEN got
     ELSE [threw |-> FALSE, write |-> TRUE,
           pending |-> <<[store[1] EXCEPT !.utxoMap = map]>>]

\* what a call does with the list its storage get resolved to
afterGet(store, c) ==
  IF c.op = "addDerivedAddress" THEN addDerivedAddress(store, c.arg.address)
  ELSE IF c.op = "setUtxos" THEN repoSetUtxos(store, c.arg.utxoMap)
  ELSE getOrCreateWallet(store, c.op, c.arg)

Quiescent == \A i \in 1..Len(calls) : calls[i].pc = "done"

\* a client calls a method: its storage get is under way
RepoCall(c) ==
  /\ LET call == [op |-> c.op, arg |-> c.arg, pc |-> "get", threw |-> FALSE,
                  pending |-> <<>>]
     IN IF Quiescent
          THEN calls' = <<call>> /\ base' = wallets
          ELSE /\ Len(calls) < MaxCalls
               /\ calls' = Append(calls, call)
               /\ UNCHANGED base
  /\ UNCHANGED <<wallets, exceptRepo>>

\* the storage get of call i resolves and the method runs on to its next await
RepoGet(i) ==
  /\ i \in 1..Len(calls)
  /\ calls[i].pc = "get"
  /\ LET r == afterGet(wallets, calls[i])
     IN calls' = [calls EXCEPT ![i] = [@ EXCEPT !.pc = IF r.write THEN "set" ELSE "done",
                                                !.threw = r.threw,
                                                !.pending = IF r.write THEN r.pending ELSE <<>>]]
  /\ UNCHANGED <<wallets, base, exceptRepo>>

\* the storage set of call i takes effect and the method returns
RepoSet(i) ==
  /\ i \in 1..Len(calls)
  /\ calls[i].pc = "set"
  /\ wallets' = calls[i].pending
  /\ calls' = [calls EXCEPT ![i] = [@ EXCEPT !.pc = "done", !.pending = <<>>]]
  /\ UNCHANGED <<base, exceptRepo>>

----------------------------------------------------------------------------
(* The sagas of mainSaga and the alarm of startAlarmUpdater *)

Kinds == {"UPDATE_TAXI_ASSETS", "RESET", "UPDATE_UTXOS", "UPDATE_TXS"}
Networks == {"liquid", "testnet", "regtest"}

\* what a taxi daemon can answer: the asset hashes it accepts, in its order
TaxiAnswers == {<<>>, <<"x", "y">>, <<"y", "x">>}
Rank(a) == IF a = "x" THEN 1 ELSE 2

\* Array.prototype.sort on the answer
RECURSIVE Insert(_, _)
Insert(sorted, a) ==
  IF sorted = <<>> THEN <<a>>
  ELSE IF Rank(a) <= Rank(Head(sorted)) THEN <<a>> \o sorted
  ELSE <<Head(sorted)>> \o Insert(Tail(sorted), a)

RECURSIVE Sort(_)
Sort(q) == IF q = <<>> THEN <<>> ELSE Insert(Sort(Tail(q)), Head(q))

RECURSIVE Join(_)
Join(q) == IF q = <<>> THEN "" ELSE Head(q) \o Join(Tail(q))

sortAndJoin(a) == Join(Sort(a))

\* redux-saga's takeLeading: the watcher takes a request, runs the handler to
\* its end and only then takes again, so a request that finds a run is dropped
takeLeading(running) == IF running > 0 THEN running ELSE 1

\* takeEvery in its place: a run is forked for every request
takeEveryTaxi(running) == running + 1
watchUpdateTaxi(running) == takeLeading(running)

watchReset(running) == takeLeading(running)

\* the watcher of the utxo and tx refresh requests
watchUpdateTask(running) == takeLeading(running)

watcher(k, running) ==
  IF k = "UPDATE_TAXI_ASSETS" THEN watchUpdateTaxi(running)
  ELSE IF k = "RESET" THEN watchReset(running)
  ELSE watchUpdateTask(running)

\* the requests ks are dispatched in one step
Requested(ks) ==
  /\ runs' = [k \in Kinds |-> IF k \in ks THEN watcher(k, runs[k]) ELSE runs[k]]
  /\ req' = [k \in Kinds |->
               IF k \in ks
                 THEN [bit |-> 1 - req[k].bit,
                       outcome |-> IF runs'[k] > runs[k] THEN "started" ELSE "dropped"]
                 ELSE req[k]]
  /\ taxi' = IF "UPDATE_TAXI_ASSETS" \in ks /\ runs'["UPDATE_TAXI_ASSETS"] > runs["UPDATE_TAXI_ASSETS"]
               /\ taxi.pc = "idle"
               THEN [taxi EXCEPT !.pc = "liquid"] ELSE taxi

\* backend.ts 241-263: the first refresh, the listener and the alarm
startAlarmUpdater ==
  /\ ~alarmOn
  /\ alarmOn' = TRUE
  /\ Requested({"UPDATE_UTXOS"})
  /\ UNCHANGED exceptSaga

\* the alarm fires: the three dispatches of the listener
onAlarm ==
  /\ alarmOn
  /\ Requested({"UPDATE_TXS", "UPDATE_UTXOS", "UPDATE_TAXI_ASSETS"})
  /\ UNCHANGED <<alarmOn, exceptSaga>>

\* the user interface dispatches RESET
DispatchReset ==
  /\ Requested({"RESET"})
  /\ UNCHANGED <<alarmOn, exceptSaga>>

\* RESET_TAXI in the taxi reducer
resetTaxi(taxiAssets) == [n \in Networks |-> <<>>]

\* part_002 57-60: the four puts of the reset saga, and its end
ResetRun ==
  /\ runs["RESET"] > 0
  /\ runs' = [runs EXCEPT !["RESET"] = @ - 1]
  /\ taxi' = [taxi EXCEPT !.assets = resetTaxi(@)]
  /\ UNCHANGED <<req, alarmOn, exceptSaga>>

\* part_002 37-49 for the network the saga is at, then on to the next of 20-35;
\* ok: the daemon answered; the catch ignores a failure
fetchTaxiAssetsForNetwork(ok, answer) ==
  /\ taxi.pc \in Networks
  /\ runs["UPDATE_TAXI_ASSETS"] > 0
  /\ LET network == taxi.pc
         next == IF network = "liquid" THEN "testnet"
                 ELSE IF network = "testnet" /\ taxi.network = "regtest" THEN "regtest"
                 ELSE "idle"
         put == ok /\ sortAndJoin(answer) # sortAndJoin(taxi.assets[network])
     IN /\ taxi' = [taxi EXCEPT !.pc = next,
                                !.assets[network] = IF put THEN Sort(answer) ELSE @]
        /\ runs' = IF next = "idle" THEN [runs EXCEPT !["UPDATE_TAXI_ASSETS"] = @ - 1]
                   ELSE runs
  /\ UNCHANGED <<req, alarmOn, exceptSaga>>

\* the user selects another network: app.network, which selectNetworkSaga reads
ChangeNetwork(n) ==
  /\ n # taxi.network
  /\ taxi' = [taxi EXCEPT !.network = n]
  /\ UNCHANGED <<runs, req, alarmOn, exceptSaga>>

\* a utxo or tx refresh run comes to its end
UpdateTaskEnd(k) ==
  /\ k \in {"UPDATE_UTXOS", "UPDATE_TXS"}
  /\ runs[k] > 0
  /\ runs' = [runs EXCEPT ![k] = @ - 1]
  /\ UNCHANGED <<req, taxi, alarmOn, exceptSaga>>

----------------------------------------------------------------------------
(* getUtxosFromTx: the coins a signed transaction spends and its change outputs *)

\* an output script, named by the address it pays to; "fee" pays to none
Scripts == {"u1", "c1", "fee"}

\* ldk's address.fromOutputScript: throws on a script that is no address
fromOutputScript(script) ==
  [threw |-> script = "fee", address |-> IF script = "fee" THEN "" ELSE script]

\* ldk's address.fromConfidential: c1 and d1 are confidential forms of u1;
\* throws on a string that is no confidential address
fromConfidential(a) ==
  [threw |-> a \notin {"c1", "d1"},
   unconfidentialAddress |-> IF a \in {"c1", "d1"} THEN "u1" ELSE ""]

\* the AddressInterface values of the accounts
WalletAddresses ==
  { [confidentialAddress |-> "c1", blindingPrivateKey |-> "k1"],
    [confidentialAddress |-> "d1", blindingPrivateKey |-> "k2"],
    [confidentialAddress |-> "u1", blindingPrivateKey |-> "k3"] }

\* lines 89-92: the comparison with the two forms of a wallet address
unconfidentialOnly(decoded, unconfidentialAddress, addr) == decoded = unconfidentialAddress
matchesAddress(decoded, unconfidentialAddress, addr) ==
  decoded = unconfidentialAddress \/ decoded = addr.confidentialAddress

\* lines 83-100: the first address that matches, or the first that throws
RECURSIVE findAddress(_, _)
findAddress(decoded, allAddresses) ==
  IF allAddresses = <<>> THEN [threw |-> FALSE, found |-> FALSE, blindPrivKey |-> ""]
  ELSE LET addr == Head(allAddresses)
           from == fromConfidential(addr.confidentialAddress)
       IN IF from.threw THEN [threw |-> TRUE, found |-> FALSE, blindPrivKey |-> ""]
          ELSE IF matchesAddress(decoded, from.unconfidentialAddress, addr)
            THEN [threw |-> FALSE, found |-> TRUE, blindPrivKey |-> addr.blindingPrivateKey]
          ELSE findAddress(decoded, Tail(allAddresses))

\* lines 76-103 for one output: what the callback pushes
changeOfOutput(txid, out, vout, allAddresses) ==
  LET decoded == fromOutputScript(out)
      match == findAddress(decoded.address, allAddresses)
  IN IF decoded.threw \/ match.threw \/ ~match.found THEN <<>>
     ELSE <<[txid |-> txid, vout |-> vout, blindPrivKey |-> match.blindPrivKey]>>

raises(out, allAddresses) ==
  fromOutputScript(out).threw
    \/ findAddress(fromOutputScript(out).address, allAddresses).threw

\* the catch of lines 101-103 is inside the callback of forEach: the outputs
\* after one that raised are examined all the same
stopAtRaise(raised, later) == IF raised THEN <<>> ELSE later
afterCatch(raised, later) == later

\* lines 75-104: tx.outs.forEach, from output number vout on
RECURSIVE changeUtxos(_, _, _, _)
changeUtxos(txid, outs, vout, allAddresses) ==
  IF outs = <<>> THEN <<>>
  ELSE changeOfOutput(txid, Head(outs), vout, allAddresses)
         \o afterCatch(raises(Head(outs), allAddresses),
                       changeUtxos(txid, Tail(outs), vout + 1, allAddresses))

Coins == {UnblindedUtxo([txid |-> o.txid, vout |-> o.vout, ok |-> TRUE]) : o \in Outpoints}

NoGut == [pc |-> "none", coins |-> <<>>, allAddresses |-> <<>>,
          tx |-> [id |-> "", ins |-> <<>>, outs |-> <<>>],
          selectedUtxos |-> <<>>, changeUtxos |-> <<>>]

\* the calls a client can make
GutCalls ==
  [pc : {"called"}, coins : SeqsUpTo(Coins, MaxCoins),
   allAddresses : SeqsUpTo(WalletAddresses, MaxAddrs),
   tx : [id : {"f00d"}, ins : SeqsUpTo(TxInputs, MaxIns), outs : SeqsUpTo(Scripts, MaxOuts)],
   selectedUtxos : {<<>>}, changeUtxos : {<<>>}]

\* lines 38-109
getUtxosFromTx ==
  /\ gut.pc = "called"
  /\ gut' = [gut EXCEPT
               !.pc = "returned",
               !.selectedUtxos = selectedUtxos(gut.coins, gut.tx.ins),
               !.changeUtxos = changeUtxos(gut.tx.id, gut.tx.outs, 0, gut.allAddresses)]
  /\ UNCHANGED exceptGut

----------------------------------------------------------------------------
(* makeUnconfirmedUtxos *)

\* an output of the parsed transaction: explicit, or blinded for a key
Prevouts == {"explicit", "k1", "k2"}
BlindKeys == {"k1", "k2"}

\* line 19: transaction.outs[vout], undefined past the end
firstPrevout(outs, vout) == IF Len(outs) > 0 THEN outs[1] ELSE "undefined"
prevoutAt(outs, vout) == IF vout + 1 \in 1..Len(outs) THEN outs[vout + 1] ELSE "undefined"

\* line 20: unblindOutput throws on a missing prevout and on a key that does
\* not open the output; an explicit output needs no key
unblindOutput(txid, vout, prevout, blindPrivKey) ==
  IF prevout = "undefined" \/ (prevout # "explicit" /\ prevout # blindPrivKey)
    THEN [threw |-> TRUE, utxo |-> <<>>]
    ELSE [threw |-> FALSE,
          utxo |-> [txid |-> txid, vout |-> vout, prevout |-> prevout,
                    unblindedWith |-> IF prevout = "explicit" THEN "" ELSE blindPrivKey]]

\* lines 16-23: the loop over the candidates; a throw of unblindOutput leaves
\* the loop and rejects the call
RECURSIVE unconfirmedUtxos(_, _, _)
unconfirmedUtxos(outs, candidates, acc) ==
  IF candidates = <<>> THEN [threw |-> FALSE, utxos |-> acc]
  ELSE LET c == Head(candidates)
           r == unblindOutput(c.txid, c.vout, prevoutAt(outs, c.vout), c.blindPrivKey)
       IN IF r.threw THEN [threw |-> TRUE, utxos |-> <<>>]
          ELSE unconfirmedUtxos(outs, Tail(candidates), Append(acc, r.utxo))

Candidates == [txid : {"f00d"}, vout : 0..MaxOuts, blindPrivKey : BlindKeys]

NoMu == [pc |-> "none", outs |-> <<>>, changeUtxos |-> <<>>, utxos |-> <<>>]

MuCalls ==
  [pc : {"called"}, outs : SeqsUpTo(Prevouts, MaxOuts),
   changeUtxos : SeqsUpTo(Candidates, MaxCands), utxos : {<<>>}]

\* lines 12-24
makeUnconfirmedUtxos ==
  /\ mu.pc = "called"
  /\ LET r == unconfirmedUtxos(mu.outs, mu.changeUtxos, <<>>)
     IN mu' = [mu EXCEPT !.pc = IF r.threw THEN "rejected" ELSE "returned",
                         !.utxos = r.utxos]
  /\ UNCHANGED exceptMu

----------------------------------------------------------------------------
(* deepRestorer *)

\* what the restoration from the explorer resolves to, and what it rejects with
DerivationOrder == <<"a1", "a2">>
RestoredAddresses == {SubSeq(DerivationOrder, 1, n) : n \in 0..Len(DerivationOrder)}
RestoreErrors == {"e1"}

\* line 281: if (isLoading) return;
neverLoading(isLoading) == FALSE
returnsIfLoading(isLoading) == isLoading

\* account: state.wallet.mainAccount as read at line 268
IdleDr == [pc |-> "idle", account |-> [confidentialAddresses |-> <<>>, restorerOpts |-> 0],
           dispatched |-> <<>>]

\* getStateRestorerOptsFromAddresses: the index of the last address
getStateRestorerOptsFromAddresses(addresses) == Len(addresses)

\* lines 268-285: from the call to the await of the restoration
deepRestorerCall(r) ==
  /\ dr[r].pc # "restoring"
  /\ IF returnsIfLoading(deepRestorerState.isLoading)
       THEN /\ dr' = [dr EXCEPT ![r] = [IdleDr EXCEPT !.pc = "returned"]]
            /\ UNCHANGED deepRestorerState
       ELSE /\ dr' = [dr EXCEPT ![r] =
                        [IdleDr EXCEPT !.pc = "restoring", !.account = mainAccount,
                                       !.dispatched = <<"setDeepRestorerIsLoading(true)">>]]
            /\ deepRestorerState' = [deepRestorerState EXCEPT !.isLoading = TRUE]
  /\ UNCHANGED <<mainAccount, exceptRestorer>>

\* lines 285-308: the restoration resolves with the addresses, or rejects
deepRestorerSettle(r, ok, addresses, err) ==
  /\ dr[r].pc = "restoring"
  /\ IF ok
       THEN /\ mainAccount' =
                 [dr[r].account EXCEPT
                    !.restorerOpts = getStateRestorerOptsFromAddresses(addresses),
                    !.confidentialAddresses = addresses]
            /\ deepRestorerState' = [isLoading |-> FALSE, error |-> "undefined"]
            /\ dr' = [dr EXCEPT ![r] = [@ EXCEPT
                        !.pc = "restored",
                        !.dispatched = @ \o <<"setWalletData", "updateUtxos",
                                              "makeTxsUpdaterThunk", "fetchAndSetTaxiAssets",
                                              "setDeepRestorerError(undefined)",
                                              "setDeepRestorerIsLoading(false)">>]]
       ELSE /\ deepRestorerState' = [isLoading |-> FALSE, error |-> err]
            /\ dr' = [dr EXCEPT ![r] = [@ EXCEPT
                        !.pc = "failed",
                        !.dispatched = @ \o <<"setDeepRestorerError",
                                              "setDeepRestorerIsLoading(false)">>]]
            /\ UNCHANGED mainAccount
  /\ UNCHANGED exceptRestorer

\* the next address derived meanwhile, in the state
AddressDerived(a) ==
  /\ Len(mainAccount.confidentialAddresses) < Len(DerivationOrder)
  /\ a = DerivationOrder[Len(mainAccount.confidentialAddresses) + 1]
  /\ mainAccount' = [mainAccount EXCEPT !.confidentialAddresses = Append(@, a)]
  /\ UNCHANGED <<deepRestorerState, dr, exceptRestorer>>

----------------------------------------------------------------------------
(* initWallet, createWallet, restoreWallet and deriveNewAddress *)

\* an IWallet of the state: which of its secrets it holds, and its addresses
StateWallet(mnemonic, xpub, blindingKey) ==
  [encryptedMnemonic |-> mnemonic, masterXPub |-> xpub, masterBlindingKey |-> blindingKey,
   confidentialAddresses |-> <<>>, utxoMap |-> <<>>]

\* the wallets initWallet is called with
InitWallets ==
  {StateWallet(TRUE, TRUE, TRUE), StateWallet(FALSE, TRUE, TRUE),
   StateWallet(FALSE, TRUE, FALSE), StateWallet(FALSE, FALSE, TRUE)}

\* the wallet reducer, on the payloads the thunks dispatch
reduceWallets(ws, type, payload) ==
  IF type = "INIT_WALLET" THEN Append(ws, payload)
  ELSE IF type \in {"WALLET_CREATE_SUCCESS", "WALLET_RESTORE_SUCCESS"} THEN <<payload>>
  ELSE IF type = "WALLET_DERIVE_ADDRESS_SUCCESS"
    THEN <<[ws[1] EXCEPT !.confidentialAddresses = Append(@, payload)]>>
  ELSE IF type = "WALLET_SET_UTXOS_SUCCESS" THEN <<[ws[1] EXCEPT !.utxoMap = payload]>>
  ELSE ws

\* part_000 133-140
initWallet(wallet) ==
  /\ Len(wstate) <= 0
  /\ wstate' = reduceWallets(wstate, "INIT_WALLET", wallet)
  /\ UNCHANGED <<th, repoVars, exceptThunk>>

\* lines 150 and 209: a wallet with an encrypted mnemonic is there
noWalletExists(ws) == FALSE
walletExists(ws) == Len(ws) > 0 /\ ws[1].encryptedMnemonic

\* line 280: wallets?.[0] of an empty list is undefined, and reading a
\* property of undefined throws as well
keysMissing(ws) ==
  IF Len(ws) = 0 THEN TRUE ELSE ~ws[1].masterXPub \/ ~ws[1].masterBlindingKey

\* the guard a thunk evaluates on the state it is started in
guardThrows(name, ws) ==
  IF name = "deriveNewAddress" THEN keysMissing(ws) ELSE walletExists(ws)

\* the address pubKeyWallet.getNextAddress() derives after the known ones
nextAddress(ws) == IF Len(ws[1].confidentialAddresses) = 0 THEN "a1" ELSE "a2"

NoThunk(name) ==
  [name |-> name, pc |-> "done", call |-> 0, outcome |-> "threw", violation |-> TRUE,
   payload |-> "", utxoMap |-> <<>>, dispatched |-> <<>>, callbacks |-> <<>>]

ThunksDone == \A t \in 1..Len(th) : th[t].pc = "done"

\* a thunk runs from its start to its first await of the repository;
\* id: the id Wallet.createWallet gives; restored: what isRestored resolves to
ThunkStart(name, id, restored) ==
  LET rest == Quiescent /\ ThunksDone
      callsNow == IF rest THEN <<>> ELSE calls
      thNow == IF rest THEN <<>> ELSE th
  IN /\ Len(thNow) < MaxCalls
     /\ name = "createWallet" => restored
     /\ name = "deriveNewAddress" => id = "w1"
     /\ IF guardThrows(name, wstate)
          THEN /\ th' = Append(thNow, NoThunk(name))
               /\ calls' = callsNow
          ELSE IF ~restored
            THEN /\ th' = Append(thNow,
                      [NoThunk(name) EXCEPT
                         !.outcome = "failure", !.violation = FALSE,
                         !.dispatched =
                           <<IF name = "restoreWallet" THEN "WALLET_RESTORE_FAILURE"
                             ELSE "WALLET_DERIVE_ADDRESS_FAILURE">>,
                         !.callbacks = <<"onError">>])
                 /\ calls' = callsNow
          ELSE /\ name = "deriveNewAddress" => Len(wstate[1].confidentialAddresses) < 2
               /\ th' = Append(thNow,
                      [NoThunk(name) EXCEPT
                         !.pc = "repo", !.call = Len(callsNow) + 1,
                         !.outcome = "pending", !.violation = FALSE,
                         !.payload = IF name = "deriveNewAddress"
                                       THEN nextAddress(wstate) ELSE ""])
               /\ calls' = Append(callsNow,
                      [op |-> IF name = "deriveNewAddress" THEN "addDerivedAddress"
                              ELSE "createWallet",
                       arg |-> IF name = "deriveNewAddress"
                                 THEN [NoArg EXCEPT !.address = nextAddress(wstate)]
                                 ELSE [NoArg EXCEPT !.walletId = id],
                       pc |-> "get", threw |-> FALSE, pending |-> <<>>])
     /\ base' = IF rest THEN wallets ELSE base
     /\ UNCHANGED <<wallets, wstate, exceptThunk>>

\* the lists the fetches of setUtxos add up to
FetchedLists ==
  {<<>>, <<[txid |-> "0ab1", vout |-> 0, ok |-> TRUE]>>,
   <<[txid |-> "b10a", vout |-> 1, ok |-> TRUE]>>}

\* a throw of onSuccess, which is called inside the try, is caught like any
\* other: the FAILURE action is dispatched and onError is called as well
afterOnSuccess(success, failure, onSuccessThrows) ==
  IF onSuccessThrows THEN <<success, failure>> ELSE <<success>>

\* part_000 388-415: setUtxos from the end of its fetches to the await of the
\* repository; wallets[0] of an empty list is undefined and the read of its
\* utxoMap throws inside the try; onSuccessThrows: the callback throws
setUtxosCall(fetched, onSuccessThrows) ==
  LET rest == Quiescent /\ ThunksDone
      callsNow == IF rest THEN <<>> ELSE calls
      thNow == IF rest THEN <<>> ELSE th
      new == [NoThunk("setUtxos") EXCEPT !.violation = FALSE]
  IN /\ Len(thNow) < MaxCalls
     /\ IF Len(wstate) = 0
          THEN /\ ~onSuccessThrows
               /\ th' = Append(thNow,
                      [new EXCEPT !.outcome = "failure",
                                  !.dispatched = <<"WALLET_SET_UTXOS_FAILURE">>,
                                  !.callbacks = <<"onError">>])
               /\ calls' = callsNow
          ELSE IF compareUtxos(wstate[1].utxoMap, fetched)
            THEN /\ th' = Append(thNow,
                        [new EXCEPT
                           !.outcome = "success",
                           !.dispatched =
                             Tail(afterOnSuccess("", "WALLET_SET_UTXOS_FAILURE", onSuccessThrows)),
                           !.callbacks = afterOnSuccess("onSuccess", "onError", onSuccessThrows)])
                 /\ calls' = callsNow
          ELSE /\ ~onSuccessThrows
               /\ th' = Append(thNow,
                      [new EXCEPT !.pc = "repo", !.call = Len(callsNow) + 1,
                                  !.outcome = "pending",
                                  !.utxoMap = newUtxoMap(fetched)])
               /\ calls' = Append(callsNow,
                      [op |-> "setUtxos",
                       arg |-> [NoArg EXCEPT !.utxoMap = newUtxoMap(fetched)],
                       pc |-> "get", threw |-> FALSE, pending |-> <<>>])
     /\ base' = IF rest THEN wallets ELSE base
     /\ UNCHANGED <<wallets, wstate, exceptThunk>>

\* the repository call of thunk t has returned: the dispatch and the callback;
\* onSuccessThrows: the callback throws
ThunkResume(t, onSuccessThrows) ==
  /\ t \in 1..Len(th)
  /\ th[t].pc = "repo"
  /\ calls[th[t].call].pc = "done"
  /\ calls[th[t].call].threw => ~onSuccessThrows
  /\ LET name == th[t].name
         failure == IF name = "createWallet" THEN "WALLET_CREATE_FAILURE"
                    ELSE IF name = "restoreWallet" THEN "WALLET_RESTORE_FAILURE"
                    ELSE IF name = "setUtxos" THEN "WALLET_SET_UTXOS_FAILURE"
                    ELSE "WALLET_DERIVE_ADDRESS_FAILURE"
         type == IF calls[th[t].call].threw
                   THEN failure
                   ELSE (IF name = "createWallet" THEN "WALLET_CREATE_SUCCESS"
                         ELSE IF name = "restoreWallet" THEN "WALLET_RESTORE_SUCCESS"
                         ELSE IF name = "setUtxos" THEN "WALLET_SET_UTXOS_SUCCESS"
                         ELSE "WALLET_DERIVE_ADDRESS_SUCCESS")
         payload == IF name = "deriveNewAddress" THEN th[t].payload
                    ELSE IF name = "setUtxos" THEN th[t].utxoMap
                    ELSE StateWallet(TRUE, TRUE, TRUE)
     IN /\ th' = [th EXCEPT ![t] = [@ EXCEPT
                     !.pc = "done",
                     !.outcome = IF calls[th[t].call].threw THEN "failure" ELSE "success",
                     !.dispatched =
                       IF calls[th[t].call].threw THEN <<failure>>
                       ELSE afterOnSuccess(type, failure, onSuccessThrows),
                     !.callbacks =
                       IF calls[th[t].call].threw THEN <<"onError">>
                       ELSE afterOnSuccess("onSuccess", "onError", onSuccessThrows)]]
        /\ wstate' = reduceWallets(wstate, type, payload)
  /\ UNCHANGED <<repoVars, exceptThunk>>

----------------------------------------------------------------------------
(* makeTxsUpdaterThunk *)

\* the transactions the explorer has for the watched addresses; the outputs of
\* an opaque one cannot be unblinded
ChainTxs == {[txid |-> "t1", opaque |-> FALSE], [txid |-> "t2", opaque |-> TRUE]}

\* line 198: the predicate the generator skips by, over the history read at line 164
alreadyKnown(history, tx) == tx.txid \in DOMAIN history

toDisplayTransaction(tx) == [txId |-> tx.txid, blinded |-> tx.opaque]

\* the reducer of addTx: the entry of the txid is the transaction
addTx(history, toAdd) ==
  [id \in DOMAIN history \cup {toAdd.txId} |->
     IF id = toAdd.txId THEN toAdd ELSE history[id]]

\* txsHistory: the history the run read; added: the txids it dispatched addTx
\* for; fetches: the times it asked the generator for the next transaction
IdleTu == [pc |-> "idle", auth |-> FALSE, txsHistory |-> <<>>, added |-> <<>>,
           fetches |-> 0]

\* lines 158-200, to the first txsGen.next()
TxsUpdaterStart(r) ==
  /\ tu[r].pc # "running"
  /\ tu' = [tu EXCEPT ![r] =
              IF returnsAtGuard(isAuthenticated) THEN [IdleTu EXCEPT !.pc = "done"]
              ELSE [IdleTu EXCEPT !.pc = "running", !.auth = isAuthenticated,
                                  !.txsHistory = txsHistory]]
  /\ UNCHANGED <<isAuthenticated, txsHistory, exceptTxs>>

\* lines 202-214: the generator yields a transaction the predicate does not skip
TxsUpdaterYield(r, tx) ==
  /\ tu[r].pc = "running"
  /\ ~alreadyKnown(tu[r].txsHistory, tx)
  /\ ~Includes(tu[r].added, tx.txid)
  /\ tu' = [tu EXCEPT ![r] = [@ EXCEPT !.added = Append(@, tx.txid),
                                       !.fetches = @ + 1]]
  /\ txsHistory' = addTx(txsHistory, toDisplayTransaction(tx))
  /\ UNCHANGED <<isAuthenticated, exceptTxs>>

\* the generator is done, or it throws and the catch of line 215 logs
TxsUpdaterEnd(r) ==
  /\ tu[r].pc = "running"
  /\ tu' = [tu EXCEPT ![r] = [@ EXCEPT !.pc = "done", !.fetches = @ + 1]]
  /\ UNCHANGED <<isAuthenticated, txsHistory, exceptTxs>>

----------------------------------------------------------------------------

InitState ==
  /\ isAuthenticated = FALSE
  /\ utxosMap = <<>>
  /\ assets = {}
  /\ upd = IdleUpd
  /\ obs = NoObs
  /\ spent = {}
  /\ replay = NoReplay
  /\ utxoMap = <<>>
  /\ storage = <<>>
  /\ su = IdleSu
  /\ sobs = NoSobs
  /\ bal = NoBal
  /\ wallets = <<>>
  /\ calls = <<>>
  /\ base = <<>>
  /\ runs = [k \in Kinds |-> 0]
  /\ req = [k \in Kinds |-> [bit |-> 0, outcome |-> "none"]]
  /\ taxi = [pc |-> "idle", network |-> "liquid", assets |-> [n \in Networks |-> <<>>]]
  /\ alarmOn = FALSE
  /\ wstate = <<>>
  /\ th = <<>>
  /\ txsHistory = <<>>
  /\ tu = [r \in 1..MaxRuns |-> IdleTu]
  /\ deepRestorerState = [isLoading |-> FALSE, error |-> "undefined"]
  /\ mainAccount = [confidentialAddresses |-> <<>>, restorerOpts |-> 0]
  /\ dr = [r \in 1..MaxRestores |-> IdleDr]

\* the updater with the rest of the application around it
InitIdle == InitState /\ gut = NoGut /\ mu = NoMu

Init == InitIdle /\ focus = "updater"

Next ==
  \/ UtxosUpdaterStart(FALSE, FALSE)
  \/ \E raw \in RawUtxos, a \in BOOLEAN, p \in BOOLEAN :
       UtxosUpdaterYield(FALSE, raw, a, p)
  \/ UtxosUpdaterEndBatch(FALSE)
  \/ UtxosUpdaterFetchError(FALSE)
  \/ UtxosUpdaterFinish
  \/ Login
  \/ Logout
  \/ \E ins \in SeqsUpTo(TxInputs, MaxIns) : SpendLocal(ins)

Spec == Init /\ [][Next]_vars

\* the updater alone, each run either against a new fetch result or against the
\* fetch result of the run before
NextReplay ==
  \/ \E again \in BOOLEAN : UtxosUpdaterStart(TRUE, again)
  \/ \E raw \in RawUtxos, p \in BOOLEAN : UtxosUpdaterYield(TRUE, raw, TRUE, p)
  \/ UtxosUpdaterEndBatch(TRUE)
  \/ UtxosUpdaterFetchError(TRUE)
  \/ UtxosUpdaterFinish
  \/ Login

\* setUtxos and getAllBalances on the wallet's Map
NextWallet ==
  \/ \E again \in BOOLEAN : setUtxosStart(again)
  \/ \E raw \in RawUtxos : setUtxosFetched(raw)
  \/ setUtxosEndAddress
  \/ setUtxosFetchError
  \/ setUtxosCompare
  \/ \E i \in 1..MaxFetch : setUtxosUnblinded(i)
  \/ \E ok \in BOOLEAN : setUtxosPersist(ok)
  \/ getAllBalances

InitWallet == InitIdle /\ focus = "wallet"

SpecWallet == InitWallet /\ [][NextWallet]_vars

InitAll == InitIdle /\ focus \in {"replay", "wallet"}

NextAll ==
  \/ focus = "replay" /\ NextReplay
  \/ focus = "wallet" /\ NextWallet

SpecAll == InitAll /\ [][NextAll]_vars

\* the repository alone, under concurrent callers
InitRepo == InitIdle /\ focus = "repo"

NextRepo ==
  \/ \E c \in RepoCalls : RepoCall(c)
  \/ \E i \in 1..MaxCalls : RepoGet(i)
  \/ \E i \in 1..MaxCalls : RepoSet(i)

SpecRepo == InitRepo /\ [][NextRepo]_vars

\* the sagas and the alarm
InitSaga == InitIdle /\ focus = "saga"

NextSaga ==
  \/ startAlarmUpdater
  \/ onAlarm
  \/ DispatchReset
  \/ ResetRun
  \/ \E ok \in BOOLEAN, answer \in TaxiAnswers : fetchTaxiAssetsForNetwork(ok, answer)
  \/ \E k \in {"UPDATE_UTXOS", "UPDATE_TXS"} : UpdateTaskEnd(k)
  \/ \E n \in Networks : ChangeNetwork(n)

SpecSaga == InitSaga /\ [][NextSaga]_vars

\* getUtxosFromTx on every list of coins, transaction and list of addresses
InitGut == InitState /\ focus = "tx" /\ gut \in GutCalls /\ mu = NoMu

NextGut == getUtxosFromTx

SpecGut == InitGut /\ [][NextGut]_vars

\* the wallet thunks over the repository
InitThunk == InitIdle /\ focus = "thunk"

NextThunk ==
  \/ \E wallet \in InitWallets : initWallet(wallet)
  \/ \E name \in {"createWallet", "restoreWallet", "deriveNewAddress"},
        id \in WalletIds, restored \in BOOLEAN : ThunkStart(name, id, restored)
  \/ \E fetched \in FetchedLists : setUtxosCall(fetched, FALSE)
  \/ \E i \in 1..MaxCalls : RepoGet(i)
  \/ \E i \in 1..MaxCalls : RepoSet(i)
  \/ \E t \in 1..MaxCalls : ThunkResume(t, FALSE)

SpecThunk == InitThunk /\ [][NextThunk]_vars

\* the thunks of one wallet with callbacks that may throw
NextCallbacks ==
  \/ initWallet(StateWallet(FALSE, TRUE, TRUE))
  \/ \E name \in {"createWallet", "restoreWallet", "deriveNewAddress"},
        restored \in BOOLEAN : ThunkStart(name, "w1", restored)
  \/ \E fetched \in FetchedLists, onSuccessThrows \in BOOLEAN :
        setUtxosCall(fetched, onSuccessThrows)
  \/ \E i \in 1..MaxCalls : RepoGet(i)
  \/ \E i \in 1..MaxCalls : RepoSet(i)
  \/ \E t \in 1..MaxCalls, onSuccessThrows \in BOOLEAN :
        ThunkResume(t, onSuccessThrows)

SpecCallbacks == InitThunk /\ [][NextCallbacks]_vars

\* runs of the transaction updater, overlapping or not
InitTxs == InitIdle /\ focus = "txs"

NextTxs ==
  \/ \E r \in 1..MaxRuns : TxsUpdaterStart(r)
  \/ \E r \in 1..MaxRuns, tx \in ChainTxs : TxsUpdaterYield(r, tx)
  \/ \E r \in 1..MaxRuns : TxsUpdaterEnd(r)
  \/ Login
  \/ Logout

SpecTxs == InitTxs /\ [][NextTxs]_vars

\* makeUnconfirmedUtxos on every transaction and candidate list
InitMu == InitState /\ focus = "unconfirmed" /\ gut = NoGut /\ mu \in MuCalls

NextMu == makeUnconfirmedUtxos

SpecMu == InitMu /\ [][NextMu]_vars

\* the two updaters, each with logins and logouts around it
InitGuard == InitIdle /\ focus \in {"updater", "txs"}

NextGuard ==
  \/ focus = "updater" /\ Next
  \/ focus = "txs" /\ NextTxs

SpecGuard == InitGuard /\ [][NextGuard]_vars

\* calls of deepRestorer; a restoration under way settles
InitRestorer == InitIdle /\ focus = "restorer"

NextRestorer ==
  \/ \E r \in 1..MaxRestores : deepRestorerCall(r)
  \/ \E r \in 1..MaxRestores, ok \in BOOLEAN, addresses \in RestoredAddresses,
        err \in RestoreErrors : deepRestorerSettle(r, ok, addresses, err)
  \/ \E a \in AddressValues : AddressDerived(a)

SpecRestorer == InitRestorer /\ [][NextRestorer]_vars

Settles(r) ==
  \E ok \in BOOLEAN, addresses \in RestoredAddresses, err \in RestoreErrors :
    deepRestorerSettle(r, ok, addresses, err)

SpecRestorerLive ==
  SpecRestorer /\ \A r \in 1..MaxRestores : WF_vars(Settles(r))

----------------------------------------------------------------------------
(* Properties *)

KeysOf(utxos) == {toStringOutpoint(utxos[i]) : i \in 1..Len(utxos)}

Occurrences(utxos, outpoint) ==
  Cardinality({i \in 1..Len(utxos) : toOutpoint(utxos[i]) = outpoint})

\* the step in which a setUtxos call ends with onSuccess
setUtxosSucceeds ==
  sobs.status = "running" /\ sobs'.status \in {"stored", "unchanged"}

C1_Updater ==
  (focus = "replay" /\ obs.status = "complete") => DOMAIN utxosMap = obs.fetched

C1_Step == setUtxosSucceeds => KeysOf(utxoMap') = KeysOf(su.allUtxos)

\* C1: after a complete run of the updater, and after a successful setUtxos
\* call, the outpoint keys in the store are exactly the outpoint keys of the
\* fetch result.
C1_RoundTrip == []C1_Updater /\ [][C1_Step]_vars

\* C2: a complete run dispatches deleteUtxo for exactly the outpoints that
\* were in the set at the start of the run and are absent from the fetched
\* outputs; with an empty fetch nothing is added.
C2_RemovalRule ==
  obs.status = "complete" =>
    /\ obs.deleted = obs.start \ obs.fetched
    /\ (obs.fetched = {} => obs.added = {})

C2_Witness ==
  /\ obs.status = "complete"
  /\ obs.deleted # {}
  /\ obs.fetched \cap obs.start # {}

\* C3: every fetched output whose key is absent from the previous set is
\* added by the run, whether or not it could be unblinded.
C3_AdditionRule ==
  obs.status = "complete" => (obs.fetched \ obs.start) \subseteq obs.added

C4_State ==
  focus = "replay" =>
    /\ obs.failed \cap obs.deleted = {}
    /\ \A k \in obs.failed \cap obs.start : k \in DOMAIN utxosMap
    /\ obs.status \in {"running", "complete"} => obs.opened \subseteq obs.added

C4_Step ==
  /\ obs'.failed # obs.failed => upd'.pc = "running"
  /\ su.pc = "compare" => sobs'.status # "failed"
  /\ (sobs.status = "running" /\ sobs'.status = "stored") =>
       /\ Len(utxoMap') = Len(su.allUtxos)
       /\ \A i \in 1..Len(su.allUtxos) :
            toOutpoint(utxoMap'[i]) = toOutpoint(su.allUtxos[i])

\* C4: an output whose unblinding fails is never removed from the set if it
\* was tracked, its siblings are still processed (every output that opens is
\* added, every fetched output ends in the wallet's Map), and the step in which
\* an unblinding fails does not end the run.
C4_UnblindFailureIsolation == []C4_State /\ [][C4_Step]_vars

\* a complete run whose first output failed to unblind and whose second,
\* another outpoint, was added
C4_Witness ==
  /\ focus = "replay"
  /\ obs.status = "complete"
  /\ Len(replay.log) >= 2
  /\ replay.log[1].kind = "utxo" /\ replay.log[2].kind = "utxo"
  /\ toStringOutpoint(replay.log[1].raw) \in obs.failed
  /\ toStringOutpoint(replay.log[2].raw) \in obs.added \ obs.failed

\* C5: no two entries of the wallet's utxoMap have the same txid and vout, and
\* every entry of the UTXO object sits under its own outpoint key.
C5_OneEntryPerOutpoint ==
  /\ \A i, j \in 1..Len(utxoMap) :
       i # j => toOutpoint(utxoMap[i]) # toOutpoint(utxoMap[j])
  /\ \A k \in DOMAIN utxosMap : toStringOutpoint(utxosMap[k]) = k

\* C6: an outpoint that was removed from the set as spent is not put back by
\* a run that started after the removal.
C6_NeverReAdded == spent \cap DOMAIN utxosMap = {}

\* C7: a run against the fetch result of the run before, started from the
\* store that run produced, dispatches no addUtxo and no deleteUtxo; a second
\* setUtxos call with the same fetch result does not persist and does not
\* dispatch.
C7_Idempotence ==
  /\ (focus = "replay" /\ replay.pos > 0) => obs.added = {} /\ obs.deleted = {}
  /\ sobs.again =>
       /\ su.pc # "persist"
       /\ ~sobs.persisted
       /\ sobs.dispatched = <<>>

C7_Witness ==
  /\ focus = "replay"
  /\ replay.pos > Len(replay.log)
  /\ obs.status = "complete"
  /\ obs.fetched # {}
  /\ DOMAIN utxosMap # {}

C8_Step ==
  setUtxosSucceeds =>
    \A i \in 1..Len(utxoMap) : \A j \in 1..Len(su.allUtxos) :
      LET was == utxoMap[i]
          now == su.allUtxos[j]
      IN ( /\ isBlindedUtxo(was)
           /\ toOutpoint(now) = toOutpoint(was)
           /\ now.ok
           /\ Occurrences(su.allUtxos, toOutpoint(was)) = 1 )
         => /\ Occurrences(utxoMap', toOutpoint(was)) = 1
            /\ \A m \in 1..Len(utxoMap') :
                 toOutpoint(utxoMap'[m]) = toOutpoint(was) => ~isBlindedUtxo(utxoMap'[m])

\* C8: an outpoint held in blinded form that the explorer returns again, once
\* and now unblindable, is held in unblinded form when the call has succeeded,
\* in exactly one entry.
C8_BlindedUpgrade == [][C8_Step]_vars

RECURSIVE SumValues(_, _)
SumValues(utxos, asset) ==
  IF utxos = <<>> THEN 0
  ELSE (IF Head(utxos).asset = asset /\ Head(utxos).value # NoValue
          THEN Head(utxos).value ELSE 0)
       + SumValues(Tail(utxos), asset)

NoDuplicates ==
  \A i, j \in 1..Len(utxoMap) : i # j => toOutpoint(utxoMap[i]) # toOutpoint(utxoMap[j])

\* C9: the balances passed to onSuccess map every asset of the set to the sum
\* of the values of the UTXOs that carry it.
C9_BalanceSum ==
  (bal.called /\ NoDuplicates) =>
    \A i \in 1..Len(utxoMap) :
      utxoMap[i].asset # NoAsset =>
        /\ utxoMap[i].asset \in DOMAIN bal.balances
        /\ bal.balances[utxoMap[i].asset] = SumValues(utxoMap, utxoMap[i].asset)

Offending == SelectSeq(utxoMap, isBlindedUtxo)

\* C10: a UTXO without asset or value is not in the balances, each such UTXO
\* raises one failure signal from which its outpoint can be told, and a UTXO
\* with both fields raises none.
C10_DataQualitySignal ==
  bal.called =>
    /\ NoAsset \notin DOMAIN bal.balances
    /\ DOMAIN bal.balances \subseteq
         {utxoMap[i].asset : i \in {n \in 1..Len(utxoMap) : ~isBlindedUtxo(utxoMap[n])}}
    /\ Len(bal.errors) = Len(Offending)
    /\ \A i, j \in 1..Len(bal.errors) :
         bal.errors[i] = bal.errors[j] => toOutpoint(Offending[i]) = toOutpoint(Offending[j])

\* the calls in the order `order`, each running alone from get to set
RECURSIVE SerialRun(_, _, _)
SerialRun(store, cs, order) ==
  IF order = <<>> THEN store
  ELSE LET r == afterGet(store, cs[Head(order)])
       IN SerialRun(IF r.write THEN r.pending ELSE store, cs, Tail(order))

SerialResults(store, cs) ==
  {SerialRun(store, cs, [i \in 1..Len(cs) |-> p[i]]) : p \in Permutations(1..Len(cs))}

\* C11: when the repository's calls have all returned, the persisted wallet
\* list is what the calls yield when run one after another in some order from
\* the list they started on.
C11_CriticalSection ==
  (focus = "repo" /\ Quiescent) => wallets \in SerialResults(base, calls)

C12_Step ==
  (upd.pc = "running" /\ ~isAuthenticated) =>
    /\ obs'.added = obs.added
    /\ obs'.deleted = obs.deleted
    /\ utxosMap' = utxosMap

\* C12: a run of the updater that resumes after the wallet was locked
\* dispatches no addUtxo and no deleteUtxo: the set is left as it is.
C12_StaleResultDiscard == [][C12_Step]_vars

\* C13: of each kind of refresh at most one handler run is in flight; a
\* request that finds a run in flight is dropped and changes nothing, and a
\* request that finds none starts a run.
C13_State == \A k \in Kinds : runs[k] <= 1

C13_Step ==
  \A k \in Kinds :
    req'[k].bit # req[k].bit =>
      IF runs[k] > 0
        THEN runs'[k] = runs[k] /\ req'[k].outcome = "dropped"
        ELSE runs'[k] = 1 /\ req'[k].outcome = "started"

C14_Step ==
  /\ (upd.pc = "running" /\ upd'.pc = "running" /\ upd'.errors > upd.errors) =>
        /\ obs'.status = "running"
        /\ utxosMap' = utxosMap
  /\ su.pc = "fetching" => sobs'.status # "failed"

\* C14: a failed fetch for one address is recorded and the run goes on with
\* the other addresses: it does not end the updater's run and it does not
\* make a setUtxos call fail.
C14_FetchIsolation == [][C14_Step]_vars

\* C15: a complete run in which the fetch for an address failed dispatches no
\* deleteUtxo for the outpoints of that address.
C15_TransientFailureKeeps ==
  obs.status = "complete" =>
    \A o \in Outpoints :
      AddressOf(o) \in obs.errors => toStringOutpoint(o) \notin obs.deleted

C16_State ==
  upd.pc = "running" =>
    /\ Len(upd.yielded) = upd.numberOfUtxos
    /\ \A i \in 1..Len(upd.yielded) :
         upd.yielded[i].unblind = (upd.yielded[i].outpoint \notin obs.start)
    /\ (obs.failed \cup obs.opened) \cap obs.start = {}

C16_Step ==
  upd.pc = "running" =>
    /\ \A k \in obs.start \cap DOMAIN utxosMap \cap DOMAIN utxosMap' :
         utxosMap'[k] = utxosMap[k]
    /\ ( /\ upd'.pc = "running"
         /\ Len(upd'.yielded) > Len(upd.yielded)
         /\ ~upd'.yielded[Len(upd'.yielded)].unblind ) => utxosMap' = utxosMap

TxidOf(hash) == ToHex([i \in 1..Len(hash) |-> hash[Len(hash) + 1 - i]])

InputMatches(coin, input) ==
  coin.txid = TxidOf(input.hash) /\ coin.vout = input.index

\* C17: the selected coins are the known coins that some input of the
\* transaction refers to by (byte-reversed hash in hex, index), one coin at
\* most per input, and the call leaves the list of coins as it was.
C17_State ==
  gut.pc = "returned" =>
    /\ {gut.selectedUtxos[i] : i \in 1..Len(gut.selectedUtxos)}
         = {gut.coins[i] : i \in {n \in 1..Len(gut.coins) :
                \E m \in 1..Len(gut.tx.ins) : InputMatches(gut.coins[n], gut.tx.ins[m])}}
    /\ Len(gut.selectedUtxos) <= Len(gut.tx.ins)

C17_Step == gut'.coins = gut.coins /\ gut'.tx = gut.tx

C17_SpentInputSelection == []C17_State /\ [][C17_Step]_vars

\* a call that selected one of two coins, for a transaction of which one input
\* matches a coin
C17_Witness ==
  /\ gut.pc = "returned"
  /\ Len(gut.coins) = 2 /\ gut.coins[1] # gut.coins[2]
  /\ Len(gut.selectedUtxos) = 1
  /\ gut.selectedUtxos[1].txid = "b10a"

\* the address the script of output number vout decodes to, "" if to none
DecodedAt(vout) == fromOutputScript(gut.tx.outs[vout + 1]).address
NoAddressAt(vout) == fromOutputScript(gut.tx.outs[vout + 1]).threw

\* wallet address j has no unconfidential form: decoding it raises
Throws(j) == fromConfidential(gut.allAddresses[j].confidentialAddress).threw

\* the output equals the unconfidential or the confidential form of address j
EqualsForm(vout, j) ==
  \/ ~Throws(j) /\ DecodedAt(vout) =
        fromConfidential(gut.allAddresses[j].confidentialAddress).unconfidentialAddress
  \/ DecodedAt(vout) = gut.allAddresses[j].confidentialAddress

EntriesAt(vout) ==
  {i \in 1..Len(gut.changeUtxos) : gut.changeUtxos[i].vout = vout}

Vouts == 0..(Len(gut.tx.outs) - 1)
AddressIndexes == 1..Len(gut.allAddresses)

RaisesAt(vout) ==
  \/ NoAddressAt(vout)
  \/ \E j \in AddressIndexes :
       /\ Throws(j)
       /\ \A k \in 1..(j - 1) : ~Throws(k) /\ ~EqualsForm(vout, k)

\* C19 as stated: whatever raises while the outputs are examined, an output
\* that equals a form of a wallet address that decodes has its entry, and an
\* output that equals none has no entry.
C19_NeverExcluded ==
  gut.pc = "returned" =>
    \A vout \in Vouts :
      (EntriesAt(vout) # {}) <=>
         (~NoAddressAt(vout) /\ \E j \in AddressIndexes : ~Throws(j) /\ EqualsForm(vout, j))

\* C19, amended: an output whose examination raises has no entry, also when an
\* address later in the list would have matched it, and the raise changes
\* nothing for the other outputs: an output whose examination does not raise
\* has an entry exactly when it equals a form of some wallet address.
C19_ChangeFailureIsolation ==
  gut.pc = "returned" =>
    \A vout \in Vouts :
      IF RaisesAt(vout) THEN EntriesAt(vout) = {}
      ELSE (EntriesAt(vout) # {}) <=> (\E j \in AddressIndexes : EqualsForm(vout, j))

\* the fee output raised and the output after it is change all the same
C19_Witness ==
  /\ gut.pc = "returned"
  /\ gut.tx.outs = <<"fee", "u1">>
  /\ RaisesAt(0)
  /\ gut.changeUtxos = <<[txid |-> "f00d", vout |-> 1, blindPrivKey |-> "k1"]>>

----------------------------------------------------------------------------
\* the state a thunk is started in violates the invariant it checks
C20_Violation(name) ==
  IF name = "deriveNewAddress"
    THEN Len(wstate) = 0 \/ ~wstate[1].masterXPub \/ ~wstate[1].masterBlindingKey
    ELSE /\ name \in {"createWallet", "restoreWallet"}
         /\ Len(wstate) > 0 /\ wstate[1].encryptedMnemonic

\* a step that starts a thunk
C20_Started == th' # th /\ (ThunksDone \/ Len(th') = Len(th) + 1)

C20_State ==
  \A t \in 1..Len(th) :
    th[t].outcome = "threw" =>
      th[t].pc = "done" /\ th[t].call = 0 /\ th[t].dispatched = <<>>

C20_Step ==
  [][C20_Started =>
       LET new == th'[Len(th')]
       IN C20_Violation(new.name) =>
            /\ new.outcome = "threw"
            /\ new.call = 0
            /\ new.dispatched = <<>>
            /\ calls' = (IF ThunksDone THEN <<>> ELSE calls)
            /\ wallets' = wallets
            /\ wstate' = wstate]_vars

\* C20: createWallet and restoreWallet started while the state holds a wallet
\* with an encrypted mnemonic, and deriveNewAddress started while masterXPub
\* or masterBlindingKey is missing, throw to the caller: the thunk makes no
\* repository call and dispatches nothing, then or later, and the persisted
\* wallet list and the wallets of the state are what they were.
C20_FailBeforeWrite == []C20_State /\ C20_Step

\* a second createWallet has thrown on the wallet the first one created
C20_Witness ==
  /\ focus = "thunk"
  /\ Len(wallets) > 0
  /\ Len(wstate) > 0 /\ wstate[1].encryptedMnemonic
  /\ \E t \in 1..Len(th) : th[t].name = "createWallet" /\ th[t].outcome = "threw"

----------------------------------------------------------------------------
\* the addresses persisted for the first wallet
PersistedAddresses(store) ==
  IF Len(store) = 0 THEN {}
  ELSE {store[1].confidentialAddresses[i] : i \in 1..Len(store[1].confidentialAddresses)}

C21_Kept ==
  [][PersistedAddresses(wallets) \subseteq PersistedAddresses(wallets')]_vars

C21_Once ==
  Len(wallets) > 0 =>
    \A i, j \in 1..Len(wallets[1].confidentialAddresses) :
      wallets[1].confidentialAddresses[i] = wallets[1].confidentialAddresses[j] => i = j

\* C21: an address persisted for the wallet stays in its confidentialAddresses
\* after every later step of every repository call, however the calls
\* interleave, and no address is stored twice.
C21_AppendOnly == C21_Kept /\ []C21_Once

----------------------------------------------------------------------------
\* the outpoint keys of a list of utxos
KeySet(utxos) == {toStringOutpoint(toOutpoint(utxos[i])) : i \in 1..Len(utxos)}

C22_Exact ==
  su.pc = "compare" =>
    (compareUtxos(utxoMap, su.allUtxos) <=> KeySet(utxoMap) = KeySet(su.allUtxos))

C22_Skip ==
  [][su.pc = "compare" /\ sobs'.status = "unchanged" =>
       KeySet(utxoMap') = KeySet(su.allUtxos)]_vars

\* C22: compareUtxos(store, fetched) is true exactly when the outpoint keys of
\* the store are the outpoint keys of the fetched list, so a setUtxos that
\* skips persistence leaves a store with the key set that was fetched.
C22_ShortCircuitSound == []C22_Exact /\ C22_Skip

----------------------------------------------------------------------------
\* the persisted UTXO set: the utxoMap of the first stored wallet
PersistedUtxos == IF Len(wallets) = 0 THEN <<>> ELSE wallets[1].utxoMap

\* thunk t completes in this step
C23_Completes(t) ==
  /\ t \in 1..Len(th) /\ t \in 1..Len(th')
  /\ th[t].pc = "repo" /\ th'[t].pc = "done"

C23_EmptyAtCreation ==
  [][\A t \in 1..MaxCalls :
       C23_Completes(t) /\ th[t].name \in {"createWallet", "restoreWallet"}
         /\ th'[t].outcome = "success" => wstate'[1].utxoMap = <<>>]_vars

C23_InMemoryIsPersisted ==
  [][\A t \in 1..MaxCalls :
       C23_Completes(t) /\ th[t].name = "setUtxos" /\ th'[t].outcome = "success"
         => wstate'[1].utxoMap = PersistedUtxos']_vars

C23_FailureKeeps ==
  [][\A t \in 1..MaxCalls :
       C23_Completes(t) /\ th[t].name = "setUtxos" /\ th'[t].outcome = "failure"
         => wstate' = wstate /\ th'[t].dispatched = <<"WALLET_SET_UTXOS_FAILURE">>]_vars

\* C23: the UTXO set is empty right after a successful createWallet or
\* restoreWallet; when a setUtxos call completes, overlapping another or not,
\* the UTXO set of the state is the persisted one; when its persistence fails
\* the state is unchanged and only WALLET_SET_UTXOS_FAILURE is dispatched.
C23_Lifecycle == C23_EmptyAtCreation /\ C23_InMemoryIsPersisted /\ C23_FailureKeeps

----------------------------------------------------------------------------
\* run r dispatches addTx in this step
C24_Dispatches(r) == Len(tu'[r].added) = Len(tu[r].added) + 1

C24_OnlyNew ==
  [][\A r \in 1..MaxRuns :
       C24_Dispatches(r) =>
         LET id == tu'[r].added[Len(tu'[r].added)]
         IN /\ id \notin DOMAIN txsHistory
            /\ ~Includes(tu[r].added, id)
            /\ id \in DOMAIN txsHistory']_vars

C24_NeverRemoves ==
  [][\A id \in DOMAIN txsHistory : id \in DOMAIN txsHistory']_vars

\* C24: a run of makeTxsUpdaterThunk dispatches addTx once for a fetched
\* transaction that is not in the history, never for one that is in it, with
\* runs overlapping or not; the transaction is in the history afterwards,
\* opaque or not, and no entry of the history is ever removed.
C24_AppendOnlyIncremental == C24_OnlyNew /\ C24_NeverRemoves

----------------------------------------------------------------------------
C25_JointFetches ==
  su.pc = "fetching" => fetchesInFlight(su) = NumAddr - (su.addr - 1)

C25_OneUnblinding ==
  \A i, j \in su.unblinding : su.batch[i] = su.batch[j] => i = j

\* C25: the fetches of the addresses not yet answered are in flight together,
\* and of the outputs of one address at most one is being unblinded at any time.
C25_Scheduling == C25_JointFetches /\ C25_OneUnblinding

----------------------------------------------------------------------------
\* outpoints with txids of one length
C26_Outpoints == [txid : {"0ab1", "b10a", "ab10"}, vout : {0, 1, 10, 11}]

C26_Injective ==
  \A o1, o2 \in C26_Outpoints :
    toStringOutpoint(o1) = toStringOutpoint(o2) <=> o1 = o2

\* the entries of the wallet's Map an outpoint addresses
C26_Entries(o) == {i \in 1..Len(utxoMap) : toOutpoint(utxoMap[i]) = o}

\* C26: two outpoints have the same key "<txid>:<vout>" exactly when they have
\* the same txid and the same vout, and in the container used as UTXO set an
\* outpoint addresses one entry: equal outpoints never address two.
C26_OutpointKey ==
  /\ C26_Injective
  /\ \A o \in Outpoints : Cardinality(C26_Entries(o)) <= 1

----------------------------------------------------------------------------
\* the unblinding of candidate i fails: no output at its vout, or an output
\* blinded for another key
C27_Fails(i) ==
  LET c == mu.changeUtxos[i]
  IN \/ c.vout >= Len(mu.outs)
     \/ mu.outs[c.vout + 1] \notin {"explicit", c.blindPrivKey}

C27_State ==
  /\ mu.pc = "returned" =>
       /\ \A i \in 1..Len(mu.changeUtxos) : ~C27_Fails(i)
       /\ Len(mu.utxos) = Len(mu.changeUtxos)
       /\ \A i \in 1..Len(mu.utxos) :
            /\ mu.utxos[i].txid = mu.changeUtxos[i].txid
            /\ mu.utxos[i].vout = mu.changeUtxos[i].vout
            /\ mu.utxos[i].prevout = mu.outs[mu.changeUtxos[i].vout + 1]
            /\ mu.utxos[i].unblindedWith \in {"", mu.changeUtxos[i].blindPrivKey}
            /\ mu.utxos[i].unblindedWith = "" <=> mu.utxos[i].prevout = "explicit"
  /\ mu.pc = "rejected" =>
       /\ \E i \in 1..Len(mu.changeUtxos) : C27_Fails(i)
       /\ mu.utxos = <<>>

\* C27: makeUnconfirmedUtxos returns one unblinded output per candidate, in
\* candidate order, the i-th being the output at the i-th candidate's vout
\* opened with its key and carrying its txid and vout; if the unblinding of a
\* candidate fails the call fails and returns no list.
C27_UnconfirmedUtxos == C27_State

\* two candidates of one transaction, opened with different keys
C27_Witness ==
  /\ mu.pc = "returned"
  /\ Len(mu.utxos) = 2
  /\ mu.utxos[1].vout = 1 /\ mu.utxos[2].vout = 0
  /\ mu.utxos[1].unblindedWith # mu.utxos[2].unblindedWith

----------------------------------------------------------------------------
C28_State == obs.status \in {"running", "aborted"} => obs.deleted = {}

C28_Step ==
  [][/\ obs'.deleted # {} /\ obs'.deleted # obs.deleted =>
          /\ upd.pc = "running" /\ upd.addr > NumAddr
          /\ obs'.added = obs.added
          /\ upd'.pc = "idle"
     /\ obs.status = "running" /\ obs'.status = "aborted" =>
          DOMAIN utxosMap \subseteq DOMAIN utxosMap']_vars

\* C28: a run dispatches deleteUtxo only in the step that follows the
\* exhaustion of the fetch stream, after all its addUtxo dispatches; a run
\* that raises before the stream is exhausted dispatches no deleteUtxo and
\* removes nothing from the set.
C28_DeleteAfterExhaustion == []C28_State /\ C28_Step

\* a run raised after adding one output, with a known UTXO not yet observed
C28_Witness ==
  /\ obs.status = "aborted"
  /\ obs.added # {}
  /\ \E k \in obs.start : k \notin obs.fetched /\ k \in DOMAIN utxosMap

----------------------------------------------------------------------------
\* the stores the updaters write to
C29_Stores == <<utxosMap, txsHistory, assets>>

C29_State ==
  /\ obs.status = "unauthenticated" =>
       obs.fetched = {} /\ obs.added = {} /\ obs.deleted = {}
  /\ \A r \in 1..MaxRuns :
       tu[r].pc = "done" /\ ~tu[r].auth => tu[r].fetches = 0 /\ tu[r].added = <<>>

C29_Step ==
  [][~isAuthenticated =>
       /\ upd.pc = "idle" /\ obs' # obs =>
            /\ obs'.status = "unauthenticated"
            /\ upd' = upd
            /\ C29_Stores' = C29_Stores
       /\ \A r \in 1..MaxRuns :
            tu[r].pc # "running" /\ tu'[r] # tu[r] =>
              /\ tu'[r].pc = "done" /\ ~tu'[r].auth
              /\ C29_Stores' = C29_Stores]_vars

\* C29: a run of makeUtxosUpdaterThunk or makeTxsUpdaterThunk started while
\* app.isAuthenticated is false returns at once: it asks the explorer for
\* nothing, dispatches nothing, and the UTXO set, the transaction history and
\* the assets are what they were.
C29_AuthenticationGuard == []C29_State /\ C29_Step

\* the UTXO updater was started after a logout, over a set with an entry
C29_Witness ==
  /\ obs.status = "unauthenticated"
  /\ ~isAuthenticated
  /\ DOMAIN utxosMap # {}

----------------------------------------------------------------------------
\* the runs past the isLoading guard
C30_PastGuard == {r \in 1..MaxRestores : dr[r].pc = "restoring"}

C30_Mutex ==
  /\ Cardinality(C30_PastGuard) <= 1
  /\ deepRestorerState.isLoading <=> C30_PastGuard # {}

C30_Step ==
  [][\A r \in 1..MaxRestores :
       /\ deepRestorerState.isLoading /\ dr[r].pc # "restoring" /\ dr'[r] # dr[r] =>
            /\ dr'[r].pc = "returned" /\ dr'[r].dispatched = <<>>
            /\ deepRestorerState' = deepRestorerState
            /\ mainAccount' = mainAccount
       /\ dr[r].pc = "restoring" /\ dr'[r].pc = "failed" =>
            /\ deepRestorerState'.error \in RestoreErrors
            /\ ~deepRestorerState'.isLoading
            /\ mainAccount' = mainAccount
       /\ dr[r].pc = "restoring" /\ dr'[r].pc = "restored" =>
            ~deepRestorerState'.isLoading]_vars

C30_Release ==
  \A r \in 1..MaxRestores :
    dr[r].pc = "restoring" ~> (dr[r].pc \in {"restored", "failed"})

\* C30: at most one deepRestorer run is past its isLoading guard, and a call
\* made while isLoading is true changes nothing; a run that set isLoading to
\* true eventually ends, restored or failed, and sets it to false in that step;
\* a failed run stores the error and leaves the wallet data as they are.
C30_MutexAndRelease == []C30_Mutex /\ C30_Step /\ C30_Release

\* a call returned at the guard while another was restoring; that one failed
C30_Witness ==
  /\ \E r, q \in 1..MaxRestores : dr[r].pc = "failed" /\ dr[q].pc = "returned"
  /\ deepRestorerState.error # "undefined"
  /\ ~deepRestorerState.isLoading
  /\ mainAccount.confidentialAddresses # <<>>

----------------------------------------------------------------------------
\* the storage set of call i takes effect in this step
C31_Sets(i) ==
  /\ i \in 1..Len(calls) /\ i \in 1..Len(calls')
  /\ calls[i].pc = "set" /\ calls'[i].pc = "done"

C31_OthersKept ==
  /\ Len(wallets') = Len(wallets)
  /\ \A w \in 2..Len(wallets) : wallets'[w] = wallets[w]

\* C31: the storage set of addDerivedAddress changes only the address list of
\* the first stored wallet and that of setUtxos only its utxoMap: every other
\* stored wallet and every other field of the first one stay as they are.
C31_RepositoryFrame ==
  [][\A i \in 1..MaxCalls :
       /\ C31_Sets(i) /\ calls[i].op = "addDerivedAddress" =>
            /\ C31_OthersKept
            /\ wallets'[1].walletId = wallets[1].walletId
            /\ wallets'[1].utxoMap = wallets[1].utxoMap
       /\ C31_Sets(i) /\ calls[i].op = "setUtxos" =>
            /\ C31_OthersKept
            /\ wallets'[1].walletId = wallets[1].walletId
            /\ wallets'[1].confidentialAddresses = wallets[1].confidentialAddresses]_vars

C32_Success(name) ==
  IF name = "createWallet" THEN "WALLET_CREATE_SUCCESS"
  ELSE IF name = "restoreWallet" THEN "WALLET_RESTORE_SUCCESS"
  ELSE IF name = "setUtxos" THEN "WALLET_SET_UTXOS_SUCCESS"
  ELSE "WALLET_DERIVE_ADDRESS_SUCCESS"

C32_Failure(name) ==
  IF name = "createWallet" THEN "WALLET_CREATE_FAILURE"
  ELSE IF name = "restoreWallet" THEN "WALLET_RESTORE_FAILURE"
  ELSE IF name = "setUtxos" THEN "WALLET_SET_UTXOS_FAILURE"
  ELSE "WALLET_DERIVE_ADDRESS_FAILURE"

\* a finished call that passed its precondition check
C32_Passed(t) == th[t].pc = "done" /\ th[t].outcome # "threw"

C32_Thunks ==
  \A t \in 1..Len(th) : C32_Passed(t) =>
    /\ Len(th[t].dispatched) <= 1
    /\ \/ /\ th[t].callbacks = <<"onSuccess">>
          /\ \A k \in 1..Len(th[t].dispatched) :
               th[t].dispatched[k] = C32_Success(th[t].name)
       \/ /\ th[t].callbacks = <<"onError">>
          /\ th[t].dispatched = <<C32_Failure(th[t].name)>>

C32_Balances ==
  bal.called =>
    ~ /\ \E k \in 1..Len(bal.dispatched) :
           bal.dispatched[k] = "WALLET_GET_ALL_BALANCES_FAILURE"
      /\ \E k \in 1..Len(bal.dispatched) :
           bal.dispatched[k] = "WALLET_GET_ALL_BALANCES_SUCCESS"

\* C32: every call of createWallet, restoreWallet, deriveNewAddress or
\* setUtxos that passes its precondition check calls exactly one of onSuccess
\* and onError, once, and dispatches only the matching SUCCESS or FAILURE
\* action, never both, also when onSuccess itself throws; getAllBalances
\* never dispatches both its FAILURE and its SUCCESS action in one call.
C32_CallbackExclusivity == C32_Thunks /\ C32_Balances

\* thunk t is a creation (createWallet or restoreWallet) that has succeeded
C33_Created(ths, t) ==
  /\ t \in 1..Len(ths)
  /\ ths[t].name \in {"createWallet", "restoreWallet"}
  /\ ths[t].pc = "done" /\ ths[t].outcome = "success"

\* C33: when two createWallet / restoreWallet calls started with no wallet
\* have both passed the guard and both succeeded, in whatever interleaving,
\* persisted storage holds at most one wallet at the end, and that wallet is
\* the one of the call whose SUCCESS action was dispatched last.
C33_SingleWallet ==
  [][\A t \in 1..MaxCalls, u \in 1..MaxCalls :
       /\ t # u /\ base = <<>>
       /\ C23_Completes(t) /\ C33_Created(th', t) /\ C33_Created(th, u)
       /\ \A k \in 1..Len(th') : th'[k].pc = "done"
       => /\ Len(wallets') <= 1
          /\ \A w \in 1..Len(wallets') :
               wallets'[w].walletId = calls[th[t].call].arg.walletId]_vars

====
